---- MODULE Spec2Model ----
(***************************************************************************)
(* State-machine model of the SSH session manager of coinbase-agentkit:    *)
(* SSHConnection (connection.py) and SSHConnectionPool                     *)
(* (connection_pool.py).  One action per public method; the remote host,   *)
(* the key files and the network are the environment, whose answers are    *)
(* drawn from small sets.                                                  *)
(***************************************************************************)
EXTENDS Integers, Sequences, FiniteSets, TLC

VARIABLES connections,        \* SSHConnectionPool.connections: id -> session object
          connection_params,  \* SSHConnectionPool.connection_params: id -> params
          sessions,           \* heap of SSHConnection objects, by object number
          clients,            \* heap of paramiko.SSHClient objects: "open" / "closed"
          trust_store,        \* known_hosts files: location -> lines of text
          sftp_clients,       \* heap of paramiko.SFTPClient objects: "open" / "closed"
          call,               \* the latest call: its arguments and the environment's answers
          ret                 \* outcome of the latest call (return value or exception)

vars == <<connections, connection_params, sessions, clients, trust_store, sftp_clients,
         call, ret>>

----------------------------------------------------------------------------
(* Bounds of the model *)

MaxConnections == 2     \* SSHConnectionPool.max_connections of the modelled pool
MaxSessions == 3        \* SSHConnection objects ever constructed
MaxClients == 2         \* paramiko.SSHClient objects ever constructed
MaxSftpClients == 2     \* paramiko.SFTPClient objects ever opened

Ids == {"a", "b", "c"}
Hosts == {"h1", "h2"}
AuthMethods == {"password", "private_key", "private_key_path"}

----------------------------------------------------------------------------
(* Text: a string is a sequence of tokens; " " and "\n" are whitespace. *)

Whitespace == {" ", "\n"}

RECURSIVE lstrip(_)
lstrip(t) == IF t = <<>> THEN t
             ELSE IF Head(t) \in Whitespace THEN lstrip(Tail(t)) ELSE t

RECURSIVE rstrip(_)
rstrip(t) == IF t = <<>> THEN t
             ELSE IF t[Len(t)] \in Whitespace THEN rstrip(SubSeq(t, 1, Len(t) - 1)) ELSE t

\* str.strip()
strip(t) == rstrip(lstrip(t))

ConnectSentinel == <<"Connection", " ", "successful">>
ProbeSentinel == <<"1">>

\* what the remote side may answer to 'echo "Connection successful"'
ConnectProbeOutputs == {ConnectSentinel, ConnectSentinel \o <<"\n">>, <<>>, <<"denied", "\n">>}
\* what the remote side may answer to 'echo 1'
ProbeOutputs == {ProbeSentinel, ProbeSentinel \o <<"\n">>, <<>>, <<"0", "\n">>}
StderrTexts == {<<>>, <<"err", "\n">>}
StdoutTexts == {<<>>, <<"out", "\n">>}
ExitCodes == {0, 7}

\* an exec_command that raises instead of answering
Raises == <<"<exception>">>
\* Python's None where a text is expected
NoResult == <<"None">>
\* datetime.now()
Now == 1

----------------------------------------------------------------------------
(* SSHConnectionParams and SSHConnection objects *)

None == 0

Params == [connection_id : Ids, host : Hosts, auth : AuthMethods]

\* SSHConnection.__init__
SSHConnection(params) ==
    [params |-> params, connected |-> FALSE, connection_time |-> None,
     known_hosts_file |-> None, ssh_client |-> None]

\* ssh_client.close() on the client heap
CloseClient(cl, c) == [k \in DOMAIN cl |-> IF k = c THEN "closed" ELSE cl[k]]

\* SSHConnection.reset_connection: the session afterwards
reset_connection(s) ==
    [s EXCEPT !.connected = FALSE, !.connection_time = None, !.ssh_client = None]

\* SSHConnection.reset_connection: the client heap afterwards
reset_clients(s, cl) == IF s.ssh_client = None THEN cl ELSE CloseClient(cl, s.ssh_client)

\* is_connected answering from the cached flag
is_connected_cached(s, cl, out) ==
    [value |-> s.ssh_client # None /\ s.connected, probed |-> FALSE, s |-> s, cl |-> cl]

\* is_connected that sends the probe and answers true whatever comes back
is_connected_trusting(s, cl, out) ==
    IF s.ssh_client = None
    THEN [value |-> FALSE, probed |-> FALSE, s |-> s, cl |-> cl]
    ELSE [value |-> TRUE, probed |-> TRUE, s |-> s, cl |-> cl]

\* SSHConnection.is_connected with the remote answer `out` to "echo 1":
\* the value returned, whether a probe was sent, the session and the heap afterwards
is_connected(s, cl, out) ==
    IF s.ssh_client = None \/ ~s.connected
    THEN [value |-> FALSE, probed |-> FALSE, s |-> s, cl |-> cl]
    ELSE LET result == IF out = Raises THEN NoResult ELSE strip(out)
         IN  IF result # ProbeSentinel
             THEN [value |-> FALSE, probed |-> TRUE,
                   s |-> reset_connection(s), cl |-> reset_clients(s, cl)]
             ELSE [value |-> TRUE, probed |-> TRUE, s |-> s, cl |-> cl]

----------------------------------------------------------------------------
(* SSHConnection.connect and the three credential paths.  A step result is *)
(* the session and the client heap afterwards plus the exception raised.   *)

Step(s, cl, err, msg) == [s |-> s, cl |-> cl, err |-> err, msg |-> msg, sent |-> FALSE]

\* a missing-host-key policy that trusts on first use
missing_host_key_accepting(hostname) == "accept"

\* the step sent a command to the remote side
Probed(step) == [step EXCEPT !.sent = TRUE]

\* CapturingRejectPolicy.missing_host_key: what the policy decides
missing_host_key(hostname) == "UnknownHostKeyError"

\* the environment's outcome of one handshake: the transport cannot be set up
\* (before any host key is seen), or authentication fails (after the host key
\* was checked), or both succeed
Handshakes == {"ok", "NoValidConnectionsError", "AuthenticationException"}

\* paramiko's SSHClient.connect as connection.py uses it: the key of a host
\* absent from the loaded host keys goes to the missing-host-key policy
ssh_client_connect(hostname, known, handshake) ==
    IF handshake = "NoValidConnectionsError"
    THEN handshake
    ELSE IF hostname \notin known /\ missing_host_key(hostname) # "accept"
    THEN missing_host_key(hostname)
    ELSE handshake

\* disconnect that drops the client without closing it
disconnect_unclosed(s, cl) == Step(reset_connection(s), cl, "none", <<>>)

\* SSHConnection.disconnect
disconnect(s, cl) == Step(reset_connection(s), reset_clients(s, cl), "none", <<>>)

\* SSHConnection._init_ssh_client: a fresh SSHClient becomes the session's client
init_ssh_client(s, cl) ==
    Step([s EXCEPT !.ssh_client = Len(cl) + 1], Append(cl, "open"), "none", <<>>)

\* SSHConnection.connect_with_password
connect_with_password(s, cl, known, env) ==
    LET d == disconnect(s, cl)
        i == init_ssh_client(d.s, d.cl)
        c == ssh_client_connect(s.params.host, known, env.handshake)
    IN  IF c = "UnknownHostKeyError"
        THEN Step(i.s, i.cl, "UnknownHostKeyError", <<"Host key verification failed for ", s.params.host>>)
        ELSE IF c # "ok"
        THEN Step(i.s, i.cl, "SSHConnectionError", <<"Failed to connect with password: ", c>>)
        ELSE i

\* SSHConnection.connect_with_key; key_is_str says whether the key still has
\* to be loaded from a string (_load_key_from_string)
connect_with_key(s, cl, known, env, key_is_str) ==
    LET d == disconnect(s, cl)
        i == init_ssh_client(d.s, d.cl)
        c == ssh_client_connect(s.params.host, known, env.handshake)
    IN  IF key_is_str /\ env.key # "ok"
        THEN Step(i.s, i.cl, "SSHKeyError", <<"Failed to load key from string">>)
        ELSE IF c = "UnknownHostKeyError"
        THEN Step(i.s, i.cl, "UnknownHostKeyError", <<"Host key verification failed for ", s.params.host>>)
        ELSE IF c # "ok"
        THEN Step(i.s, i.cl, "SSHConnectionError", <<"Failed to connect with key: ", c>>)
        ELSE i

\* SSHConnection.connect_with_key_path
connect_with_key_path(s, cl, known, env) ==
    IF ~env.key_exists
    THEN Step(s, cl, "SSHKeyError", <<"Key file not found at ">>)
    ELSE IF env.key # "ok"
    THEN Step(s, cl, "SSHKeyError", <<"Failed to load key file">>)
    ELSE LET r == connect_with_key(s, cl, known, env, FALSE)
         IN  IF r.err = "SSHConnectionError"
             THEN Step(r.s, r.cl, r.err, <<"Failed to connect with key file: ">> \o r.msg)
             ELSE r

\* connect that takes any answer to the liveness probe for the sentinel
connect_unprobed(s, cl, known, env) ==
    LET d == disconnect(s, cl)
        a == CASE s.params.auth = "password" -> connect_with_password(d.s, d.cl, known, env)
               [] s.params.auth = "private_key" -> connect_with_key(d.s, d.cl, known, env, TRUE)
               [] OTHER -> connect_with_key_path(d.s, d.cl, known, env)
    IN  IF a.err = "UnknownHostKeyError"
        THEN Step(reset_connection(a.s), reset_clients(a.s, a.cl), a.err, a.msg)
        ELSE IF a.err # "none"
        THEN a
        ELSE IF env.probe = Raises
        THEN Probed(Step(a.s, a.cl, "Exception", <<"exec_command failed">>))
        ELSE Probed(Step([a.s EXCEPT !.connected = TRUE, !.connection_time = Now], a.cl,
                         "none", <<>>))

\* SSHConnection.connect
connect(s, cl, known, env) ==
    LET d == disconnect(s, cl)
        a == CASE s.params.auth = "password" -> connect_with_password(d.s, d.cl, known, env)
               [] s.params.auth = "private_key" -> connect_with_key(d.s, d.cl, known, env, TRUE)
               [] OTHER -> connect_with_key_path(d.s, d.cl, known, env)
        result == IF env.probe = Raises THEN NoResult ELSE strip(env.probe)
    IN  IF a.err = "UnknownHostKeyError"
        THEN Step(reset_connection(a.s), reset_clients(a.s, a.cl), a.err, a.msg)
        ELSE IF a.err # "none"
        THEN a
        ELSE IF env.probe = Raises
        THEN Probed(Step(a.s, a.cl, "Exception", <<"exec_command failed">>))
        ELSE IF result # ConnectSentinel
        THEN Probed(Step([a.s EXCEPT !.connected = FALSE], a.cl, "SSHConnectionError",
                         <<"Connection test failed: ">> \o strip(env.stderr)))
        ELSE Probed(Step([a.s EXCEPT !.connected = TRUE, !.connection_time = Now], a.cl,
                         "none", <<>>))

\* what the environment answers to one connect(): whether the key file
\* exists, whether the key loads, how the handshake ends, what the probe
\* prints.  An answer the code never asks for has one value: the key of a
\* missing file, the probe after a failed handshake, the stderr of a probe
\* that raised or printed the sentinel.
ConnectEnvs ==
    {e \in [key_exists : BOOLEAN, key : {"ok", "SSHException"}, handshake : Handshakes,
            probe : ConnectProbeOutputs \cup {Raises}, stderr : StderrTexts] :
        /\ ~e.key_exists => e.key = "ok"
        /\ e.handshake # "ok" => e.probe = Raises
        /\ (e.probe = Raises \/ strip(e.probe) = ConnectSentinel) => e.stderr = <<>>}

----------------------------------------------------------------------------
(* known_hosts files.  A file is a sequence of lines, a line a sequence of *)
(* tokens; ssh_add_host_key writes "{host} {key_type} {key}\n".            *)

DefaultStore == "~/.ssh/known_hosts"
CustomStore == "/custom/known_hosts"
KnownHostsFiles == {DefaultStore, CustomStore}

\* the key every remote host presents in the handshake
PresentedKeyType == "ssh-rsa"
PresentedKey == "k1"

\* str.split(): the tokens of a line that are not whitespace
RECURSIVE split(_)
split(line) ==
    IF line = <<>> THEN <<>>
    ELSE IF Head(line) \in Whitespace THEN split(Tail(line))
    ELSE <<Head(line)>> \o split(Tail(line))

\* the line ssh_add_host_key writes
Entry(host, key_type, key) == <<host, " ", key_type, " ", key, "\n">>

\* ssh_add_host_key that never looks for the host and always appends
ssh_add_host_key_appending(lines, host, key_type, key) ==
    Append(lines, Entry(host, key_type, key))

\* ssh_add_host_key on the lines of one file: the first line whose first
\* token is the host is rewritten, else the entry is appended
ssh_add_host_key(lines, host, key_type, key) ==
    LET matching == {i \in DOMAIN lines : split(lines[i]) # <<>> /\ split(lines[i])[1] = host}
    IN  IF matching # {}
        THEN [lines EXCEPT ![CHOOSE i \in matching : \A j \in matching : i <= j] =
                  Entry(host, key_type, key)]
        ELSE Append(lines, Entry(host, key_type, key))

\* the hosts for which the file at location file holds the key they present
Trusted(file) ==
    {h \in Hosts : \E i \in DOMAIN trust_store[file] :
        split(trust_store[file][i]) = <<h, PresentedKeyType, PresentedKey>>}

\* load_system_host_keys(): the hosts whose key the system known_hosts file holds
known_hosts == Trusted(DefaultStore)

\* the host keys _init_ssh_client loads into the client of session s
host_keys(s) ==
    known_hosts \cup (IF s.known_hosts_file # None THEN Trusted(s.known_hosts_file) ELSE {})

----------------------------------------------------------------------------
Live == DOMAIN connections

\* the latest call: the method, the connection id it was about, the session
\* object it was called on or returned (None if none), the exception raised
\* and its text, the text or boolean returned, and whether a remote command
\* (a probe, or the command of execute) was sent
Ret(op, id, obj, err, msg, text, flag, sent) ==
    [op |-> op, id |-> id, obj |-> obj, err |-> err, msg |-> msg,
     text |-> text, flag |-> flag, sent |-> sent]

NoRet == Ret("init", "", None, "none", <<>>, <<>>, FALSE, FALSE)

\* a call without arguments
NoArgs == [none |-> TRUE]

\* connect() under a policy that trusts on first use and saves the key: the
\* presented key of an unknown host is appended to the system known_hosts file
Connect_saving_host_key(sid, env) ==
    /\ sid \in DOMAIN sessions
    /\ LET host == sessions[sid].params.host
           unknown == host \notin host_keys(sessions[sid]) /\ env.handshake # "NoValidConnectionsError"
           r == connect(sessions[sid], clients, host_keys(sessions[sid]) \cup {host}, env)
       IN  /\ Len(r.cl) <= MaxClients
           /\ sessions' = [sessions EXCEPT ![sid] = r.s]
           /\ clients' = r.cl
           /\ trust_store' = IF unknown
                             THEN [trust_store EXCEPT ![DefaultStore] =
                                      Append(@, Entry(host, PresentedKeyType, PresentedKey))]
                             ELSE trust_store
           /\ call' = env
           /\ ret' = Ret("connect", sessions[sid].params.connection_id, sid, r.err, r.msg,
                      <<>>, FALSE, r.sent)
    /\ UNCHANGED <<connections, connection_params, sftp_clients>>

\* the caller invokes connect() on session object sid
Connect(sid, env) ==
    /\ sid \in DOMAIN sessions
    /\ LET r == connect(sessions[sid], clients, host_keys(sessions[sid]), env)
       IN  /\ Len(r.cl) <= MaxClients
           /\ sessions' = [sessions EXCEPT ![sid] = r.s]
           /\ clients' = r.cl
           /\ call' = env
           /\ ret' = Ret("connect", sessions[sid].params.connection_id, sid, r.err, r.msg,
                      <<>>, FALSE, r.sent)
    /\ UNCHANGED <<connections, connection_params, trust_store, sftp_clients>>

\* the caller invokes is_connected() on session object sid
IsConnected(sid, out) ==
    /\ sid \in DOMAIN sessions
    /\ LET r == is_connected(sessions[sid], clients, out)
       IN  /\ sessions' = [sessions EXCEPT ![sid] = r.s]
           /\ clients' = r.cl
           /\ call' = [probe |-> out]
           /\ ret' = Ret("is_connected", sessions[sid].params.connection_id, sid, "none", <<>>,
                      <<>>, r.value, r.probed)
    /\ UNCHANGED <<connections, connection_params, trust_store, sftp_clients>>

\* the caller invokes disconnect() on session object sid
Disconnect(sid) ==
    /\ sid \in DOMAIN sessions
    /\ LET r == disconnect(sessions[sid], clients)
       IN  /\ sessions' = [sessions EXCEPT ![sid] = r.s]
           /\ clients' = r.cl
           /\ call' = NoArgs
           /\ ret' = Ret("disconnect", sessions[sid].params.connection_id, sid, "none", <<>>,
                      <<>>, FALSE, FALSE)
    /\ UNCHANGED <<connections, connection_params, trust_store, sftp_clients>>

\* execute whose exit-status errors are raised past the handler that resets
execute_exit_status_unreset(s, cl, id, env) ==
    LET pre == is_connected(s, cl, env.probe)
        failed(msg) == [s |-> reset_connection(pre.s), cl |-> reset_clients(pre.s, pre.cl),
                        err |-> "SSHConnectionError",
                        msg |-> <<"Command execution failed on ", id, ": ">> \o msg,
                        value |-> <<>>, sent |-> TRUE]
        raised(msg) == [s |-> pre.s, cl |-> pre.cl, err |-> "SSHConnectionError",
                        msg |-> msg, value |-> <<>>, sent |-> TRUE]
        returned(v) == [s |-> pre.s, cl |-> pre.cl, err |-> "none", msg |-> <<>>,
                        value |-> v, sent |-> TRUE]
    IN  IF ~pre.value
        THEN [s |-> pre.s, cl |-> pre.cl, err |-> "SSHConnectionError",
              msg |-> <<"No active SSH connection for ", id, ". Please connect first.">>,
              value |-> <<>>, sent |-> FALSE]
        ELSE IF env.exec = Raises
        THEN failed(<<"exec_command failed">>)
        ELSE IF env.error_output # <<>> /\ (env.ignore_stderr \/ env.exit_status = 0)
        THEN IF env.output # <<>>
             THEN returned(env.output \o <<"\n[stderr]: ">> \o env.error_output)
             ELSE returned(env.error_output)
        ELSE IF env.exit_status # 0 /\ env.error_output # <<>>
        THEN raised(<<"Command execution failed on ", id, " (exit code ",
                      ToString(env.exit_status), "): ">> \o env.error_output)
        ELSE IF env.exit_status # 0
        THEN raised(<<"Command execution failed on ", id, " with exit code ",
                      ToString(env.exit_status)>>)
        ELSE IF env.output = <<>> /\ env.exit_status = 0
        THEN returned(<<>>)
        ELSE returned(env.output)

\* execute that raises on a non-zero exit status whatever ignore_stderr says
execute_heeding_stderr(s, cl, id, env) ==
    LET pre == is_connected(s, cl, env.probe)
        failed(msg) == [s |-> reset_connection(pre.s), cl |-> reset_clients(pre.s, pre.cl),
                        err |-> "SSHConnectionError",
                        msg |-> <<"Command execution failed on ", id, ": ">> \o msg,
                        value |-> <<>>, sent |-> TRUE]
        returned(v) == [s |-> pre.s, cl |-> pre.cl, err |-> "none", msg |-> <<>>,
                        value |-> v, sent |-> TRUE]
    IN  IF ~pre.value
        THEN [s |-> pre.s, cl |-> pre.cl, err |-> "SSHConnectionError",
              msg |-> <<"No active SSH connection for ", id, ". Please connect first.">>,
              value |-> <<>>, sent |-> FALSE]
        ELSE IF env.exec = Raises
        THEN failed(<<"exec_command failed">>)
        ELSE IF env.error_output # <<>> /\ env.exit_status = 0
        THEN IF env.output # <<>>
             THEN returned(env.output \o <<"\n[stderr]: ">> \o env.error_output)
             ELSE returned(env.error_output)
        ELSE IF env.exit_status # 0 /\ env.error_output # <<>>
        THEN failed(<<"Command execution failed on ", id, " (exit code ",
                      ToString(env.exit_status), "): ">> \o env.error_output)
        ELSE IF env.exit_status # 0
        THEN failed(<<"Command execution failed on ", id, " with exit code ",
                      ToString(env.exit_status)>>)
        ELSE IF env.output = <<>> /\ env.exit_status = 0
        THEN returned(<<>>)
        ELSE returned(env.output)

\* execute that returns the output whatever the exit status
execute_ignoring_exit_status(s, cl, id, env) ==
    LET pre == is_connected(s, cl, env.probe)
        failed(msg) == [s |-> reset_connection(pre.s), cl |-> reset_clients(pre.s, pre.cl),
                        err |-> "SSHConnectionError",
                        msg |-> <<"Command execution failed on ", id, ": ">> \o msg,
                        value |-> <<>>, sent |-> TRUE]
        returned(v) == [s |-> pre.s, cl |-> pre.cl, err |-> "none", msg |-> <<>>,
                        value |-> v, sent |-> TRUE]
    IN  IF ~pre.value
        THEN [s |-> pre.s, cl |-> pre.cl, err |-> "SSHConnectionError",
              msg |-> <<"No active SSH connection for ", id, ". Please connect first.">>,
              value |-> <<>>, sent |-> FALSE]
        ELSE IF env.exec = Raises
        THEN failed(<<"exec_command failed">>)
        ELSE IF env.error_output # <<>>
        THEN IF env.output # <<>>
             THEN returned(env.output \o <<"\n[stderr]: ">> \o env.error_output)
             ELSE returned(env.error_output)
        ELSE IF FALSE
        THEN failed(<<"Command execution failed on ", id, " (exit code ",
                      ToString(env.exit_status), "): ">> \o env.error_output)
        ELSE IF FALSE
        THEN failed(<<"Command execution failed on ", id, " with exit code ",
                      ToString(env.exit_status)>>)
        ELSE IF env.output = <<>>
        THEN returned(<<>>)
        ELSE returned(env.output)

\* SSHConnection.execute
execute(s, cl, id, env) ==
    LET pre == is_connected(s, cl, env.probe)
        failed(msg) == [s |-> reset_connection(pre.s), cl |-> reset_clients(pre.s, pre.cl),
                        err |-> "SSHConnectionError",
                        msg |-> <<"Command execution failed on ", id, ": ">> \o msg,
                        value |-> <<>>, sent |-> TRUE]
        returned(v) == [s |-> pre.s, cl |-> pre.cl, err |-> "none", msg |-> <<>>,
                        value |-> v, sent |-> TRUE]
    IN  IF ~pre.value
        THEN [s |-> pre.s, cl |-> pre.cl, err |-> "SSHConnectionError",
              msg |-> <<"No active SSH connection for ", id, ". Please connect first.">>,
              value |-> <<>>, sent |-> FALSE]
        ELSE IF env.exec = Raises
        THEN failed(<<"exec_command failed">>)
        ELSE IF env.error_output # <<>> /\ (env.ignore_stderr \/ env.exit_status = 0)
        THEN IF env.output # <<>>
             THEN returned(env.output \o <<"\n[stderr]: ">> \o env.error_output)
             ELSE returned(env.error_output)
        ELSE IF env.exit_status # 0 /\ env.error_output # <<>>
        THEN failed(<<"Command execution failed on ", id, " (exit code ",
                      ToString(env.exit_status), "): ">> \o env.error_output)
        ELSE IF env.exit_status # 0
        THEN failed(<<"Command execution failed on ", id, " with exit code ",
                      ToString(env.exit_status)>>)
        ELSE IF env.output = <<>> /\ env.exit_status = 0
        THEN returned(<<>>)
        ELSE returned(env.output)

\* the argument ignore_stderr and what the environment answers to one
\* execute(): the liveness probe, exec_command, the exit status and the two
\* streams.  An answer the code never asks for has one value: everything
\* after a probe that did not print the sentinel or an exec_command that raised.
ExecuteEnvs ==
    {e \in [probe : ProbeOutputs \cup {Raises}, exec : {<<"ok">>, Raises},
            exit_status : ExitCodes, output : StdoutTexts,
            error_output : StderrTexts, ignore_stderr : BOOLEAN] :
        /\ (e.probe = Raises \/ strip(e.probe) # ProbeSentinel) => e.exec = <<"ok">>
        /\ (e.probe = Raises \/ strip(e.probe) # ProbeSentinel \/ e.exec = Raises) =>
              (e.exit_status = 0 /\ e.output = <<>> /\ e.error_output = <<>>)}

\* the caller invokes execute() on session object sid
Execute(sid, env) ==
    /\ sid \in DOMAIN sessions
    /\ LET r == execute(sessions[sid], clients, sessions[sid].params.connection_id, env)
       IN  /\ sessions' = [sessions EXCEPT ![sid] = r.s]
           /\ clients' = r.cl
           /\ call' = env
           /\ ret' = Ret("execute", sessions[sid].params.connection_id, sid, r.err, r.msg,
                      r.value, FALSE, r.sent)
    /\ UNCHANGED <<connections, connection_params, trust_store, sftp_clients>>

----------------------------------------------------------------------------
(* File transfer: get_sftp_client, upload_file, download_file and          *)
(* list_directory.  A transfer result is the session and the two heaps     *)
(* afterwards, the exception raised, the value returned, whether a probe   *)
(* was sent and the SFTPClient opened.                                     *)

Transfer(s, cl, sf, err, msg, value, probed, sftp) ==
    [s |-> s, cl |-> cl, sf |-> sf, err |-> err, msg |-> msg, value |-> value,
     probed |-> probed, sftp |-> sftp]

\* sftp.close(), and what SSHClient.close() does to a channel of its transport
CloseSftp(sf, c) == [k \in DOMAIN sf |-> IF k = c THEN "closed" ELSE sf[k]]

\* what the environment answers to one file transfer: what the local path
\* is (read by upload_file only), the liveness probe, and the first call that
\* raises, if any: open_sftp, the put/get/listdir, or sftp.close
TransferFailures == {"none", "open_sftp", "operation", "close"}
LocalPaths == {"file", "directory", "missing"}
TransferEnvs ==
    [local : LocalPaths, probe : {ProbeSentinel \o <<"\n">>, <<"0", "\n">>},
     fails : TransferFailures]

\* SSHConnection.get_sftp_client
get_sftp_client(s, cl, sf, env) ==
    LET pre == is_connected(s, cl, env.probe)
    IN  IF ~pre.value
        THEN Transfer(pre.s, pre.cl, sf, "SSHConnectionError",
                      <<"No active SSH connection. Please connect first.">>,
                      <<>>, pre.probed, None)
        ELSE IF env.fails = "open_sftp"
        THEN Transfer(reset_connection(pre.s), reset_clients(pre.s, pre.cl), sf,
                      "SSHConnectionError", <<"Failed to initialize SFTP client: ", "open_sftp">>,
                      <<>>, TRUE, None)
        ELSE Transfer(pre.s, pre.cl, Append(sf, "open"), "none", <<>>, <<>>, TRUE, Len(sf) + 1)

\* the file-transfer try block without the sftp.close() after the operation
sftp_operation_unclosed(s, cl, sf, id, env, prefix, value) ==
    LET g == get_sftp_client(s, cl, sf, env)
    IN  IF g.err # "none"
        THEN Transfer(reset_connection(g.s), reset_clients(g.s, g.cl), g.sf,
                      "SSHConnectionError", <<prefix, id, ": ">> \o g.msg, <<>>, g.probed, None)
        ELSE IF env.fails = "operation"
        THEN Transfer(reset_connection(g.s), reset_clients(g.s, g.cl), CloseSftp(g.sf, g.sftp),
                      "SSHConnectionError", <<prefix, id, ": ", env.fails>>, <<>>, TRUE, g.sftp)
        ELSE Transfer(g.s, g.cl, g.sf, "none", <<>>, value, TRUE, g.sftp)

\* the try block shared by upload_file, download_file and list_directory:
\* get_sftp_client(), the one operation, sftp.close(); any exception resets
\* the session and is raised again as SSHConnectionError with the prefix
sftp_operation(s, cl, sf, id, env, prefix, value) ==
    LET g == get_sftp_client(s, cl, sf, env)
    IN  IF g.err # "none"
        THEN Transfer(reset_connection(g.s), reset_clients(g.s, g.cl), g.sf,
                      "SSHConnectionError", <<prefix, id, ": ">> \o g.msg, <<>>, g.probed, None)
        ELSE IF env.fails \in {"operation", "close"}
        THEN Transfer(reset_connection(g.s), reset_clients(g.s, g.cl), CloseSftp(g.sf, g.sftp),
                      "SSHConnectionError", <<prefix, id, ": ", env.fails>>, <<>>, TRUE, g.sftp)
        ELSE Transfer(g.s, g.cl, CloseSftp(g.sf, g.sftp), "none", <<>>, value, TRUE, g.sftp)

\* SSHConnection.upload_file: sftp.put of a directory raises when it opens
\* the local path for reading
upload_file(s, cl, sf, id, env) ==
    IF env.local = "missing"
    THEN Transfer(s, cl, sf, "FileNotFoundError", <<"Local file not found: ">>, <<>>, FALSE, None)
    ELSE sftp_operation(s, cl, sf, id,
                        IF env.local = "directory" /\ env.fails \in {"none", "close"}
                        THEN [env EXCEPT !.fails = "operation"] ELSE env,
                        "File upload failed for ", <<>>)

\* SSHConnection.download_file
download_file(s, cl, sf, id, env) ==
    sftp_operation(s, cl, sf, id, env, "File download failed for ", <<>>)

\* SSHConnection.list_directory
list_directory(s, cl, sf, id, env) ==
    sftp_operation(s, cl, sf, id, env, "Directory listing failed on ", <<"files">>)

\* the outcome r of a file transfer on session object sid becomes the next state
Transferred(op, sid, env, r) ==
    /\ sid \in DOMAIN sessions
    /\ Len(r.sf) <= MaxSftpClients
    /\ sessions' = [sessions EXCEPT ![sid] = r.s]
    /\ clients' = r.cl
    /\ sftp_clients' = r.sf
    /\ call' = env
    /\ ret' = Ret(op, sessions[sid].params.connection_id, sid, r.err, r.msg, r.value,
                  r.sftp # None, r.probed)
    /\ UNCHANGED <<connections, connection_params, trust_store>>

UploadFile(sid, env) ==
    Transferred("upload_file", sid, env,
                upload_file(sessions[sid], clients, sftp_clients,
                            sessions[sid].params.connection_id, env))

DownloadFile(sid, env) ==
    Transferred("download_file", sid, env,
                download_file(sessions[sid], clients, sftp_clients,
                              sessions[sid].params.connection_id, env))

ListDirectory(sid, env) ==
    Transferred("list_directory", sid, env,
                list_directory(sessions[sid], clients, sftp_clients,
                               sessions[sid].params.connection_id, env))

\* reset_connection without contextlib.suppress: the exception of
\* ssh_client.close() escapes before the client is dropped
disconnect_closing_unsuppressed(s, cl, close) ==
    IF s.ssh_client # None /\ close # "ok"
    THEN Step([s EXCEPT !.connected = FALSE, !.connection_time = None],
              [k \in DOMAIN cl |-> IF k = s.ssh_client THEN "broken" ELSE cl[k]],
              "Exception", <<"close failed">>)
    ELSE Step(reset_connection(s),
              IF s.ssh_client = None THEN cl ELSE CloseClient(cl, s.ssh_client),
              "none", <<>>)

\* SSHConnection.reset_connection where ssh_client.close() may raise: the
\* exception is suppressed and the client is dropped all the same
disconnect_closing(s, cl, close) ==
    Step(reset_connection(s),
         IF s.ssh_client = None THEN cl
         ELSE IF close = "ok" THEN CloseClient(cl, s.ssh_client)
         ELSE [k \in DOMAIN cl |-> IF k = s.ssh_client THEN "broken" ELSE cl[k]],
         "none", <<>>)

\* the caller invokes disconnect() on session object sid; close is how
\* ssh_client.close() ends
DisconnectClosing(sid, close) ==
    /\ sid \in DOMAIN sessions
    /\ LET r == disconnect_closing(sessions[sid], clients, close)
       IN  /\ sessions' = [sessions EXCEPT ![sid] = r.s]
           /\ clients' = r.cl
           /\ call' = [close |-> close]
           /\ ret' = Ret("disconnect", sessions[sid].params.connection_id, sid, r.err, r.msg,
                      <<>>, FALSE, FALSE)
    /\ UNCHANGED <<connections, connection_params, trust_store, sftp_clients>>

----------------------------------------------------------------------------
(* SSHConnectionPool.  A pool state is the two dictionaries plus the two   *)
(* heaps; every method yields the pool state afterwards, the exception     *)
(* raised and the object returned.                                         *)

Pool(conns, cparams, sess, cl) ==
    [connections |-> conns, connection_params |-> cparams, sessions |-> sess, clients |-> cl]

Outcome(p, err, msg, value) == [pool |-> p, err |-> err, msg |-> msg, value |-> value]

Without(f, k) == [i \in DOMAIN f \ {k} |-> f[i]]
With(f, k, v) == [i \in DOMAIN f \cup {k} |-> IF i = k THEN v ELSE f[i]]

\* close_connection that disconnects the session and leaves it registered
close_connection_registered(p, id) ==
    IF id \notin DOMAIN p.connections
    THEN Outcome(p, "none", <<>>, None)
    ELSE LET sid == p.connections[id]
             d == disconnect(p.sessions[sid], p.clients)
         IN  Outcome(Pool(p.connections, p.connection_params,
                          [p.sessions EXCEPT ![sid] = d.s], d.cl),
                     "none", <<>>, sid)

\* close_connection that also forgets the parameters of the id
close_connection_forgetting(p, id) ==
    IF id \notin DOMAIN p.connections
    THEN Outcome(p, "none", <<>>, None)
    ELSE LET sid == p.connections[id]
             d == disconnect(p.sessions[sid], p.clients)
         IN  Outcome(Pool(Without(p.connections, id), Without(p.connection_params, id),
                          [p.sessions EXCEPT ![sid] = d.s], d.cl),
                     "none", <<>>, sid)

\* SSHConnectionPool.close_connection
close_connection(p, id) ==
    IF id \notin DOMAIN p.connections
    THEN Outcome(p, "none", <<>>, None)
    ELSE LET sid == p.connections[id]
             d == disconnect(p.sessions[sid], p.clients)
         IN  Outcome(Pool(Without(p.connections, id), p.connection_params,
                          [p.sessions EXCEPT ![sid] = d.s], d.cl),
                     "none", <<>>, sid)

\* the loop of close_idle_connections over the entries `todo`; outs[id] is the
\* remote answer to the probe that is_connected() sends for entry id
RECURSIVE close_idle_loop(_, _, _)
close_idle_loop(p, todo, outs) ==
    IF todo = {} THEN p
    ELSE LET id == CHOOSE i \in todo : TRUE
             sid == p.connections[id]
             r == is_connected(p.sessions[sid], p.clients, outs[id])
             q == Pool(p.connections, p.connection_params,
                       [p.sessions EXCEPT ![sid] = r.s], r.cl)
         IN  close_idle_loop(IF ~r.value THEN close_connection(q, id).pool ELSE q,
                             todo \ {id}, outs)

\* close_idle_connections that closes every registered session, idle or not
close_idle_connections_all(p, outs) ==
    LET registered == {p.connections[id] : id \in DOMAIN p.connections}
        held == {p.sessions[sid].ssh_client : sid \in registered}
    IN  Pool([i \in {} |-> None], p.connection_params,
             [sid \in DOMAIN p.sessions |->
                 IF sid \in registered THEN reset_connection(p.sessions[sid])
                 ELSE p.sessions[sid]],
             [c \in DOMAIN p.clients |-> IF c \in held THEN "closed" ELSE p.clients[c]])

\* close_idle_connections that spares the sessions that were never connected
close_idle_connections_sparing_new(p, outs) ==
    close_idle_loop(p, {id \in DOMAIN p.connections :
                           p.sessions[p.connections[id]].ssh_client # None}, outs)

\* SSHConnectionPool.close_idle_connections
close_idle_connections(p, outs) == close_idle_loop(p, DOMAIN p.connections, outs)

\* create_connection without the capacity check
create_connection_unbounded(p, params, outs) ==
    LET q == close_idle_connections(p, outs)
        sid == Len(q.sessions) + 1
    IN  Outcome(Pool(With(q.connections, params.connection_id, sid),
                     With(q.connection_params, params.connection_id, params),
                     Append(q.sessions, SSHConnection(params)), q.clients),
                "none", <<>>, sid)

\* create_connection that checks capacity before evicting idle entries
create_connection_check_first(p, params, outs) ==
    LET q == close_idle_connections(p, outs)
        sid == Len(q.sessions) + 1
    IN  IF Cardinality(DOMAIN p.connections) >= MaxConnections
        THEN Outcome(p, "SSHConnectionError", <<"Connection limit reached">>, None)
        ELSE Outcome(Pool(With(q.connections, params.connection_id, sid),
                          With(q.connection_params, params.connection_id, params),
                          Append(q.sessions, SSHConnection(params)), q.clients),
                     "none", <<>>, sid)

\* SSHConnectionPool.create_connection
create_connection(p, params, outs) ==
    LET q == close_idle_connections(p, outs)
        sid == Len(q.sessions) + 1
    IN  IF Cardinality(DOMAIN q.connections) >= MaxConnections
        THEN Outcome(q, "SSHConnectionError", <<"Connection limit reached">>, None)
        ELSE Outcome(Pool(With(q.connections, params.connection_id, sid),
                          With(q.connection_params, params.connection_id, params),
                          Append(q.sessions, SSHConnection(params)), q.clients),
                     "none", <<>>, sid)

\* get_connection that rebuilds from the retained parameters even when a
\* session is registered under the id
get_connection_rebuilding(p, id, outs) ==
    IF id \notin DOMAIN p.connection_params
    THEN Outcome(p, "SSHConnectionError", <<"Connection ID '", id, "' not found">>, None)
    ELSE IF id \notin DOMAIN p.connections /\ Cardinality(DOMAIN p.connections) >= MaxConnections
    THEN Outcome(p, "SSHConnectionError", <<"Connection limit reached">>, None)
    ELSE create_connection(p, p.connection_params[id], outs)

\* SSHConnectionPool.get_connection
get_connection(p, id, outs) ==
    IF id \in DOMAIN p.connections
    THEN Outcome(p, "none", <<>>, p.connections[id])
    ELSE IF id \notin DOMAIN p.connection_params
    THEN Outcome(p, "SSHConnectionError", <<"Connection ID '", id, "' not found">>, None)
    ELSE IF Cardinality(DOMAIN p.connections) >= MaxConnections
    THEN Outcome(p, "SSHConnectionError", <<"Connection limit reached">>, None)
    ELSE create_connection(p, p.connection_params[id], outs)

\* close_and_remove_connection that forgets the parameters but leaves the session registered
close_and_remove_connection_params_only(p, id) ==
    Outcome(Pool(p.connections, Without(p.connection_params, id), p.sessions, p.clients),
            "none", <<>>, None)

\* close_and_remove_connection that closes the session and keeps the parameters
close_and_remove_connection_keeping_params(p, id) ==
    Outcome(close_connection(p, id).pool, "none", <<>>, None)

\* SSHConnectionPool.close_and_remove_connection
close_and_remove_connection(p, id) ==
    LET q == close_connection(p, id).pool
    IN  Outcome(Pool(q.connections, Without(q.connection_params, id), q.sessions, q.clients),
                "none", <<>>, None)

\* SSHConnectionPool.close_all_connections
RECURSIVE close_all_loop(_, _)
close_all_loop(p, todo) ==
    IF todo = {} THEN p
    ELSE LET id == CHOOSE i \in todo : TRUE
         IN  close_all_loop(close_connection(p, id).pool, todo \ {id})

close_all_connections(p) == Outcome(close_all_loop(p, DOMAIN p.connections), "none", <<>>, None)

\* SSHConnectionPool.clear_connection_pool
clear_connection_pool(p) ==
    LET q == close_all_connections(p).pool
    IN  Outcome(Pool(q.connections, [i \in {} |-> None], q.sessions, q.clients),
                "none", <<>>, None)

ThePool == Pool(connections, connection_params, sessions, clients)

\* the pool method's outcome becomes the next state
Becomes(op, id, args, r) ==
    /\ Len(r.pool.sessions) <= MaxSessions
    /\ call' = args
    /\ connections' = r.pool.connections
    /\ connection_params' = r.pool.connection_params
    /\ sessions' = r.pool.sessions
    /\ clients' = r.pool.clients
    /\ ret' = Ret(op, id, r.value, r.err, r.msg, <<>>, FALSE, FALSE)
    /\ UNCHANGED <<trust_store, sftp_clients>>

\* remote answers to the probes of one eviction pass: an answer for every
\* registered session that is_connected() would probe
PoolProbeOutputs == {ProbeSentinel \o <<"\n">>, Raises}
EvictionEnvs ==
    {outs \in [Live -> PoolProbeOutputs] :
        \A id \in Live : ~sessions[connections[id]].connected => outs[id] = Raises}

CreateConnection(params, outs) ==
    Becomes("create_connection", params.connection_id, [params |-> params, outs |-> outs],
            create_connection(ThePool, params, outs))

GetConnection(id, outs) ==
    Becomes("get_connection", id, [outs |-> outs], get_connection(ThePool, id, outs))

CloseConnection(id) ==
    Becomes("close_connection", id, NoArgs, close_connection(ThePool, id))

CloseAndRemoveConnection(id) ==
    Becomes("close_and_remove_connection", id, NoArgs,
            close_and_remove_connection(ThePool, id))

CloseIdleConnections(outs) ==
    Becomes("close_idle_connections", "", [outs |-> outs],
            Outcome(close_idle_connections(ThePool, outs), "none", <<>>, None))

CloseAllConnections ==
    Becomes("close_all_connections", "", NoArgs, close_all_connections(ThePool))

ClearConnectionPool ==
    Becomes("clear_connection_pool", "", NoArgs, clear_connection_pool(ThePool))

\* SshActionProvider.ssh_add_host_key: the caller registers a key for host
\* in the known_hosts file at location file (a missing file has no lines)
AddHostKey(host, key_type, key, file) ==
    /\ trust_store' = [trust_store EXCEPT ![file] = ssh_add_host_key(@, host, key_type, key)]
    /\ call' = [host |-> host, key_type |-> key_type, key |-> key, known_hosts_file |-> file]
    /\ ret' = Ret("ssh_add_host_key", "", None, "none", <<>>, <<>>, FALSE, FALSE)
    /\ UNCHANGED <<connections, connection_params, sessions, clients, sftp_clients>>

----------------------------------------------------------------------------
(* The pool under a single caller (Spec): passwords only, every host       *)
(* already trusted, the caller reaches sessions through the live registry. *)

\* one parameter set per connection id
PoolParams == {p \in Params : p.auth = "password" /\ p.host = "h1"}
PoolConnectEnvs == {e \in ConnectEnvs : /\ e.key_exists /\ e.key = "ok" /\ e.stderr = <<>>
                                        /\ e.handshake # "NoValidConnectionsError"
                                        /\ e.probe \in {ConnectSentinel \o <<"\n">>, <<>>, Raises}
                                        /\ e.handshake = "ok" => e.probe # Raises}

Init ==
    /\ connections = [i \in {} |-> None]
    /\ connection_params = [i \in {} |-> None]
    /\ sessions = <<>>
    /\ clients = <<>>
    /\ trust_store = [file \in KnownHostsFiles |->
                         IF file = DefaultStore
                         THEN <<Entry("h1", PresentedKeyType, PresentedKey),
                                Entry("h2", PresentedKeyType, PresentedKey)>>
                         ELSE <<>>]
    /\ sftp_clients = <<>>
    /\ call = NoArgs
    /\ ret = NoRet

Next ==
    \/ \E params \in PoolParams, outs \in EvictionEnvs : CreateConnection(params, outs)
    \/ \E id \in Ids, outs \in EvictionEnvs : GetConnection(id, outs)
    \/ \E id \in Ids : CloseConnection(id)
    \/ \E id \in Ids : CloseAndRemoveConnection(id)
    \/ \E outs \in EvictionEnvs : CloseIdleConnections(outs)
    \/ CloseAllConnections
    \/ ClearConnectionPool
    \/ \E id \in Live, env \in PoolConnectEnvs : Connect(connections[id], env)

Spec == Init /\ [][Next]_vars

----------------------------------------------------------------------------
(* One session on its own (SessionSpec): every credential path, every      *)
(* answer of the remote side, and the trust store filling up.              *)

SessionInit ==
    /\ connections = [i \in {} |-> None]
    /\ connection_params = [i \in {} |-> None]
    /\ \E params \in Params : sessions = <<SSHConnection(params)>>
    /\ clients = <<>>
    /\ trust_store = [file \in KnownHostsFiles |-> <<>>]
    /\ sftp_clients = <<>>
    /\ call = NoArgs
    /\ ret = NoRet

SessionNext ==
    \/ \E env \in ConnectEnvs : Connect(1, env)
    \/ \E out \in ProbeOutputs \cup {Raises} : IsConnected(1, out)
    \/ \E env \in ExecuteEnvs : Execute(1, env)
    \/ Disconnect(1)
    \/ \E host \in Hosts \ known_hosts :
          AddHostKey(host, PresentedKeyType, PresentedKey, DefaultStore)

SessionSpec == SessionInit /\ [][SessionNext]_vars

----------------------------------------------------------------------------
(* The pool with endpoints that change (EndpointSpec): two connection ids, *)
(* each created again and again with either host, closed, removed and      *)
(* fetched back.                                                           *)

EndpointIds == {"a", "b"}
EndpointParams == {p \in Params : p.auth = "password" /\ p.connection_id \in EndpointIds}

EndpointNext ==
    \/ \E params \in EndpointParams, outs \in EvictionEnvs : CreateConnection(params, outs)
    \/ \E id \in EndpointIds, outs \in EvictionEnvs : GetConnection(id, outs)
    \/ \E id \in EndpointIds : CloseConnection(id)
    \/ \E id \in EndpointIds : CloseAndRemoveConnection(id)
    \/ \E id \in Live, env \in PoolConnectEnvs : Connect(connections[id], env)

EndpointSpec == Init /\ [][EndpointNext]_vars

----------------------------------------------------------------------------
(* One session transferring files (TransferSpec): password authentication *)
(* to a trusted host, every way a transfer can fail, and a close() of the  *)
(* client that may raise.                                                  *)

TransferInit ==
    /\ connections = [i \in {} |-> None]
    /\ connection_params = [i \in {} |-> None]
    /\ sessions = <<SSHConnection([connection_id |-> "a", host |-> "h1", auth |-> "password"])>>
    /\ clients = <<>>
    /\ trust_store = [file \in KnownHostsFiles |->
                         IF file = DefaultStore
                         THEN <<Entry("h1", PresentedKeyType, PresentedKey)>>
                         ELSE <<>>]
    /\ sftp_clients = <<>>
    /\ call = NoArgs
    /\ ret = NoRet

TransferNext ==
    \/ \E env \in PoolConnectEnvs : Connect(1, env)
    \/ \E env \in TransferEnvs : UploadFile(1, env)
    \/ \E env \in TransferEnvs : DownloadFile(1, env)
    \/ \E env \in TransferEnvs : ListDirectory(1, env)
    \/ \E close \in {"ok", "raises"} : DisconnectClosing(1, close)

TransferSpec == TransferInit /\ [][TransferNext]_vars

----------------------------------------------------------------------------
(* One session and the known_hosts files (TrustSpec): the caller connects, *)
(* is turned away, registers the presented key in the default or in a      *)
(* custom file, and connects again.                                        *)

\* an optional parameter left at its default, None
Unset == ""

\* CustomSSHConnectionParams: SSHConnectionParams plus known_hosts_file
TrustParams ==
    [connection_id : {"a"}, host : Hosts, auth : {"password"},
     known_hosts_file : {Unset, CustomStore}]

TrustInit ==
    /\ connections = [i \in {} |-> None]
    /\ connection_params = [i \in {} |-> None]
    /\ \E params \in TrustParams : sessions = <<SSHConnection(params)>>
    /\ clients = <<>>
    /\ trust_store = [file \in KnownHostsFiles |-> <<>>]
    /\ sftp_clients = <<>>
    /\ call = NoArgs
    /\ ret = NoRet

TrustNext ==
    \/ \E env \in PoolConnectEnvs : Connect(1, env)
    \/ Disconnect(1)
    \/ \E host \in Hosts, file \in KnownHostsFiles :
          AddHostKey(host, PresentedKeyType, PresentedKey, file)

TrustSpec == TrustInit /\ [][TrustNext]_vars

----------------------------------------------------------------------------
(* The known_hosts files on their own (StoreSpec): keys registered again   *)
(* and again for the same hosts, in files that start empty or with a blank *)
(* line.                                                                   *)

RegisteredKeys == {PresentedKey, "k2"}
InitialFiles == {<<>>, <<<<"\n">>>>}

StoreInit ==
    /\ connections = [i \in {} |-> None]
    /\ connection_params = [i \in {} |-> None]
    /\ sessions = <<>>
    /\ clients = <<>>
    /\ trust_store \in [KnownHostsFiles -> InitialFiles]
    /\ sftp_clients = <<>>
    /\ call = NoArgs
    /\ ret = NoRet

StoreNext ==
    \E host \in Hosts, key \in RegisteredKeys, file \in KnownHostsFiles :
        AddHostKey(host, PresentedKeyType, key, file)

StoreSpec == StoreInit /\ [][StoreNext]_vars

----------------------------------------------------------------------------
(* Credentials (CredentialSpec): SSHConnectionParams construction and the  *)
(* two private-key loaders.                                                *)

\* the decorators of check_auth_method_provided from the innermost to the
\* outermost: the class attribute is classmethod(model_validator(...)(f))
Decorators == <<"model_validator", "classmethod">>

\* pydantic collects as validators the class attributes that are its own
\* decorator proxies, that is, whose outermost decorator is pydantic's
Collected(decorators) == decorators[Len(decorators)] = "model_validator"

\* the optional authentication fields of SSHConnectionParams
AuthFields == {"password", "private_key", "private_key_path"}
AuthValues == [AuthFields -> {Unset, "given"}]

\* check_auth_method_provided on the validated fields
check_auth_method_provided(fields) ==
    IF \A f \in AuthFields : fields[f] = Unset
    THEN [err |-> "ValidationError",
          msg |-> <<"At least one authentication method must be provided (password, private_key, or private_key_path)">>]
    ELSE [err |-> "none", msg |-> <<>>]

\* SSHConnectionParams(...): field validation (every auth field is optional)
\* followed by the collected model validators
SSHConnectionParams(fields) ==
    IF Collected(Decorators)
    THEN check_auth_method_provided(fields)
    ELSE [err |-> "none", msg |-> <<>>]

\* the caller constructs SSHConnectionParams
ConstructParams(id, host, fields) ==
    /\ LET r == SSHConnectionParams(fields)
       IN  /\ call' = [connection_id |-> id, host |-> host, auth |-> fields]
           /\ ret' = Ret("SSHConnectionParams", id, None, r.err, r.msg, <<>>, FALSE, FALSE)
    /\ UNCHANGED <<connections, connection_params, sessions, clients, trust_store, sftp_clients>>

\* key_classes with Ed25519 tried first
key_classes_ed25519_first == <<"Ed25519Key", "RSAKey", "DSSKey", "ECDSAKey">>

\* key_classes of both loaders
key_classes == <<"RSAKey", "DSSKey", "ECDSAKey", "Ed25519Key">>

\* how one key class answers from_private_key / from_private_key_file
KeyOutcomes == {"ok", "PasswordRequiredException", "SSHException", "Exception"}
KeyMaterials == [{key_classes[i] : i \in DOMAIN key_classes} -> KeyOutcomes]

\* the loop state of a loader before the first attempt
LoadStart ==
    [done |-> FALSE, err |-> "none", msg |-> <<>>, tried |-> <<>>,
     password_required |-> FALSE, last_error |-> <<>>]

\* one iteration of the loop that gives up at the first key class asking
\* for a password
load_attempt_stopping(st, key_class, outcome, failed) ==
    LET t == [st EXCEPT !.tried = Append(@, key_class)]
    IN  IF outcome = "ok" THEN [t EXCEPT !.done = TRUE]
        ELSE IF outcome = "PasswordRequiredException"
        THEN [t EXCEPT !.done = TRUE, !.err = "SSHKeyError",
                       !.msg = <<"Password-protected key requires a password">>]
        ELSE IF outcome = "SSHException" THEN [t EXCEPT !.last_error = <<key_class>>]
        ELSE [t EXCEPT !.done = TRUE, !.err = "SSHKeyError", !.msg = failed \o <<key_class>>]

\* one iteration of "for key_class in key_classes": the attempt returns the
\* key, or is noted as password required, or as the last format error, or
\* ends the loader with SSHKeyError for any other exception
load_attempt(st, key_class, outcome, failed) ==
    LET t == [st EXCEPT !.tried = Append(@, key_class)]
    IN  IF outcome = "ok" THEN [t EXCEPT !.done = TRUE]
        ELSE IF outcome = "PasswordRequiredException" THEN [t EXCEPT !.password_required = TRUE]
        ELSE IF outcome = "SSHException" THEN [t EXCEPT !.last_error = <<key_class>>]
        ELSE [t EXCEPT !.done = TRUE, !.err = "SSHKeyError", !.msg = failed \o <<key_class>>]

\* the loop over key_classes from position i on
RECURSIVE load_loop(_, _, _, _)
load_loop(material, i, st, failed) ==
    IF st.done \/ i > Len(key_classes) THEN st
    ELSE load_loop(material, i + 1,
                   load_attempt(st, key_classes[i], material[key_classes[i]], failed), failed)

\* what a loader does after the loop
load_result(st, needs_password, failed, invalid, unsupported) ==
    IF st.done THEN st
    ELSE IF st.password_required THEN [st EXCEPT !.err = "SSHKeyError", !.msg = needs_password]
    ELSE IF st.last_error # <<>> THEN [st EXCEPT !.err = "SSHKeyError", !.msg = invalid \o st.last_error]
    ELSE [st EXCEPT !.err = "SSHKeyError", !.msg = unsupported]

\* SSHConnection._load_key_from_string
load_key_from_string(material) ==
    load_result(load_loop(material, 1, LoadStart, <<"Failed to load key from string: ">>),
                <<"Password-protected key provided but no password was given">>,
                <<"Failed to load key from string: ">>,
                <<"Failed to load key from string: ">>,
                <<"Key format not supported or invalid key data">>)

\* SSHConnection._load_key_from_file
load_key_from_file(material) ==
    load_result(load_loop(material, 1, LoadStart, <<"Failed to load key file ">>),
                <<"Password-protected key file requires a password">>,
                <<"Failed to load key file ">>,
                <<"Invalid key format in ">>,
                <<"Key format not supported or invalid key file ">>)

\* the caller loads a key; ret.text lists the key classes tried, in order,
\* and the key returned is of the last one
LoadedKey(op, material, r) ==
    /\ call' = [material |-> material]
    /\ ret' = Ret(op, "", None, r.err, r.msg, r.tried, FALSE, FALSE)
    /\ UNCHANGED <<connections, connection_params, sessions, clients, trust_store, sftp_clients>>

LoadKeyFromString(material) ==
    LoadedKey("_load_key_from_string", material, load_key_from_string(material))

LoadKeyFromFile(material) ==
    LoadedKey("_load_key_from_file", material, load_key_from_file(material))

CredentialInit ==
    /\ connections = [i \in {} |-> None]
    /\ connection_params = [i \in {} |-> None]
    /\ sessions = <<>>
    /\ clients = <<>>
    /\ trust_store = [file \in KnownHostsFiles |-> <<>>]
    /\ sftp_clients = <<>>
    /\ call = NoArgs
    /\ ret = NoRet

CredentialNext ==
    \/ \E id \in Ids, host \in Hosts, fields \in AuthValues : ConstructParams(id, host, fields)
    \/ \E material \in KeyMaterials : LoadKeyFromString(material)
    \/ \E material \in KeyMaterials : LoadKeyFromFile(material)

CredentialSpec == CredentialInit /\ [][CredentialNext]_vars

----------------------------------------------------------------------------
(* Properties of the pool, checked under Spec *)

SessionOf(id) == sessions[connections[id]]

\* the remote side answered the probe with the text wanted (compared as the
\* code compares it, after stripping surrounding whitespace)
Answers(out, sentinel) == out # Raises /\ strip(out) = sentinel

\* C1: after any sequence of pool operations by a single caller the live
\* registry holds at most max_connections entries.
C1_LiveBounded == Cardinality(Live) <= MaxConnections

\* the registry is full and a further create was turned away
C1_Witness ==
    /\ Cardinality(Live) = MaxConnections
    /\ ret.op = "create_connection"
    /\ ret.err = "SSHConnectionError"

\* C2: every id registered in the live registry also has retained parameters
\* (the reverse need not hold).
C2_LiveHaveParams == Live \subseteq DOMAIN connection_params

\* a session is registered while another id has parameters but no session
C2_Witness ==
    /\ Live # {}
    /\ DOMAIN connection_params \ Live # {}

\* entry id is idle: its session is Disconnected, or the probe that
\* is_connected() would send is answered outs[id], which is not "1"
Idle(id, outs) ==
    \/ SessionOf(id).ssh_client = None
    \/ ~SessionOf(id).connected
    \/ ~Answers(outs[id], ProbeSentinel)

PoolUnchanged == UNCHANGED <<connections, connection_params, sessions, clients>>

\* id is registered to a session object made in this step from params
Registered(id, params) ==
    /\ ret'.err = "none"
    /\ ret'.obj \notin DOMAIN sessions
    /\ id \in Live'
    /\ connections'[id] = ret'.obj
    /\ sessions'[ret'.obj] = SSHConnection(params)
    /\ id \in DOMAIN connection_params'
    /\ connection_params'[id] = params

LimitReached == ret'.err = "SSHConnectionError" /\ ret'.msg = <<"Connection limit reached">>

\* what C8 says of one create_connection step
C8_CreateStep(params, outs) ==
    LET idle == {id \in Live : Idle(id, outs)}
        id == params.connection_id
    IN  /\ (idle \ {id}) \cap Live' = {}
        /\ id \in idle => (id \notin Live' \/ connections'[id] # connections[id])
        /\ Cardinality(Live \ idle) >= MaxConnections =>
              /\ LimitReached
              /\ connections' = connections
              /\ connection_params' = connection_params
              /\ sessions' = sessions
        /\ Cardinality(Live \ idle) < MaxConnections => Registered(id, params)
        /\ idle # {} => Registered(id, params)
        /\ \A j \in Live \ (idle \cup {id}) : j \in Live' /\ connections'[j] = connections[j]

\* C8: create evicts the idle entries first; if the registry then still holds
\* max_connections entries (all live) it raises the capacity error and adds
\* nothing to the registry or the retained parameters; if an entry was idle,
\* eviction frees a slot and create succeeds.
C8_CreateEvictsThenChecks ==
    [][ret'.op = "create_connection" => C8_CreateStep(call'.params, call'.outs)]_vars

\* a create was turned away by a registry full of Connected sessions
C8_Witness ==
    /\ ret.op = "create_connection"
    /\ ret.err = "SSHConnectionError"
    /\ ret.id \notin Live
    /\ Cardinality(Live) = MaxConnections
    /\ \A id \in Live : SessionOf(id).connected

\* C9 as stated: a registered session is returned as it is; else retained
\* parameters always yield a new registered session; else not-found.
C9_GetStep_Stated(id) ==
    IF id \in Live
    THEN ret'.err = "none" /\ ret'.obj = connections[id] /\ PoolUnchanged
    ELSE IF id \in DOMAIN connection_params
    THEN Registered(id, connection_params[id])
    ELSE /\ ret'.err = "SSHConnectionError"
         /\ ret'.msg = <<"Connection ID '", id, "' not found">>
         /\ PoolUnchanged

C9_GetStep(id) ==
    IF id \in Live
    THEN ret'.err = "none" /\ ret'.obj = connections[id] /\ PoolUnchanged
    ELSE IF id \in DOMAIN connection_params
    THEN IF Cardinality(Live) >= MaxConnections
         THEN LimitReached /\ PoolUnchanged
         ELSE Registered(id, connection_params[id])
    ELSE /\ ret'.err = "SSHConnectionError"
         /\ ret'.msg = <<"Connection ID '", id, "' not found">>
         /\ PoolUnchanged

C10_GetEvictsBeforeCapacity ==
    [][(ret'.op = "get_connection" /\ ret'.id \notin Live
            /\ ret'.id \in DOMAIN connection_params /\ ret'.err # "none") =>
          (Cardinality(Live) >= MaxConnections /\ \A j \in Live : ~Idle(j, call'.outs))]_vars

----------------------------------------------------------------------------
(* Properties of one session, checked under SessionSpec *)

Range(t) == {t[k] : k \in DOMAIN t}

TypedErrors == {"SSHKeyError", "UnknownHostKeyError", "SSHConnectionError"}

\* the environment lets the chosen credential path of session s get through
\* key loading, transport setup, host verification and authentication
HandshakeSucceeds(s, env) ==
    /\ s.params.host \in known_hosts
    /\ env.handshake = "ok"
    /\ s.params.auth = "private_key" => env.key = "ok"
    /\ s.params.auth = "private_key_path" => (env.key_exists /\ env.key = "ok")

\* C3: host trust is fail-closed.  A session is never Connected to a host
\* whose key the trust store lacks; a connect() to such a host never succeeds,
\* and once the host key is met (keys loaded, transport up) it raises
\* UnknownHostKeyError and leaves the session Disconnected without a client.
C3_FailClosed ==
    \A sid \in DOMAIN sessions :
        LET s == sessions[sid]
        IN  /\ s.connected => s.params.host \in known_hosts
            /\ (ret.op = "connect" /\ ret.obj = sid /\ s.params.host \notin known_hosts) =>
                  /\ ~s.connected
                  /\ ret.err \in TypedErrors
                  /\ ret.err = "SSHConnectionError" =>
                        ret.msg[Len(ret.msg)] = "NoValidConnectionsError"
                  /\ ret.err = "UnknownHostKeyError" =>
                        (s.ssh_client = None /\ clients[Len(clients)] = "closed")

\* a connect() was rejected for an unknown host key after a client was opened
C3_Witness ==
    /\ ret.op = "connect"
    /\ ret.err = "UnknownHostKeyError"
    /\ Len(clients) > 0
    /\ sessions[ret.obj].params.host \notin known_hosts

\* what C4 says of one connect() step
C4_ConnectStep(sid, env) ==
    LET s == sessions[sid]
        t == sessions'[sid]
    IN  /\ t.connected <=> (HandshakeSucceeds(s, env) /\ Answers(env.probe, ConnectSentinel))
        /\ t.connected => ret'.err = "none"
        /\ (HandshakeSucceeds(s, env) /\ env.probe # Raises
                /\ strip(env.probe) # ConnectSentinel) =>
              /\ ret'.err = "SSHConnectionError"
              /\ ret'.msg = <<"Connection test failed: ">> \o strip(env.stderr)
              /\ ~t.connected

\* C4: a session becomes Connected only through a connect() whose handshake
\* succeeded and whose liveness probe answered the sentinel; a differing
\* answer makes connect() raise SSHConnectionError with the remote stderr text
\* and leaves the session Disconnected; Connected implies an open client.
C4_ConnectedOnlyAfterProbe ==
    /\ [][\A sid \in DOMAIN sessions' :
            sessions'[sid].connected =>
                /\ sessions'[sid].ssh_client # None
                /\ clients'[sessions'[sid].ssh_client] = "open"]_vars
    /\ [][ret'.op = "connect" => C4_ConnectStep(ret'.obj, call')]_vars
    /\ [][\A sid \in DOMAIN sessions :
            (~sessions[sid].connected /\ sessions'[sid].connected) =>
                (ret'.op = "connect" /\ ret'.obj = sid /\ ret'.err = "none")]_vars

\* a connect() got through the handshake and failed on the probe's answer
C4_Witness ==
    /\ ret.op = "connect"
    /\ ret.err = "SSHConnectionError"
    /\ ret.msg = <<"Connection test failed: ", "err">>
    /\ ~sessions[ret.obj].connected

\* C5: whenever connect() fails, the session ends Disconnected with no
\* client, and the error raised is SSHKeyError, UnknownHostKeyError or
\* SSHConnectionError.
C5_FailedConnectTornDown ==
    (ret.op = "connect" /\ ret.err # "none") =>
        /\ ~sessions[ret.obj].connected
        /\ sessions[ret.obj].ssh_client = None
        /\ ret.err \in TypedErrors

\* what C6 says of one is_connected() step
C6_IsConnectedStep(sid, out) ==
    LET s == sessions[sid]
        t == sessions'[sid]
    IN  /\ ret'.flag => (ret'.sent /\ Answers(out, ProbeSentinel))
        /\ (s.connected /\ ~Answers(out, ProbeSentinel)) =>
              /\ ~ret'.flag
              /\ ~t.connected
              /\ t.ssh_client = None
              /\ clients'[s.ssh_client] = "closed"
        /\ ~s.connected =>
              /\ ~ret'.flag
              /\ ~ret'.sent
              /\ t = s
              /\ clients' = clients

\* C6: is_connected() returns true only if the probe it sent in that call
\* answered "1"; from Connected a failed probe resets the session (client
\* closed and dropped) and returns false; from Disconnected it returns false
\* without a probe and without changing the session; a Disconnected session
\* becomes Connected again only through a connect() that succeeds.
C6_NeverCached ==
    /\ [][ret'.op = "is_connected" => C6_IsConnectedStep(ret'.obj, call'.probe)]_vars
    /\ [][\A sid \in DOMAIN sessions :
            (~sessions[sid].connected /\ sessions'[sid].connected) =>
                (ret'.op = "connect" /\ ret'.err = "none")]_vars

\* is_connected() sent a probe, it failed, and the client is gone
C6_Witness ==
    /\ ret.op = "is_connected"
    /\ ret.sent
    /\ ~ret.flag
    /\ sessions[ret.obj].ssh_client = None
    /\ Len(clients) > 0
    /\ \A c \in DOMAIN clients : clients[c] = "closed"

\* C7: every execute() that raises leaves the session Disconnected, whether
\* the pre-check failed, the transport raised, or the command exited non-zero.
C7_FailedExecuteDisconnects ==
    (ret.op = "execute" /\ ret.err # "none") => ~sessions[ret.obj].connected

\* execute() ran the command, it exited with status 7, and the session was reset
C7_Witness ==
    /\ ret.op = "execute"
    /\ ret.err = "SSHConnectionError"
    /\ ret.sent
    /\ "7" \in Range(ret.msg)
    /\ ~sessions[ret.obj].connected
    /\ sessions[ret.obj].ssh_client = None

----------------------------------------------------------------------------
(* Properties of the pool, checked under EndpointSpec *)

\* the step is a get_connection(id) that directly follows a close_connection(id)
\* which closed a session
GetFollowsClose ==
    /\ ret.op = "close_connection"
    /\ ret.obj # None
    /\ ret'.op = "get_connection"
    /\ ret'.id = ret.id

\* the step is a create_connection that succeeded
Created == ret'.op = "create_connection" /\ ret'.err = "none"

\* C11: a get_connection(id) directly after a close_connection(id) that closed
\* a session succeeds and returns a new session object, not the closed one,
\* Disconnected, built from the parameters of the last successful
\* create_connection for id: the retained parameters of an id are exactly
\* those of its last successful create, until they are removed.
C11_CloseThenGet ==
    /\ [][GetFollowsClose =>
            /\ Registered(ret.id, connection_params[ret.id])
            /\ ret'.obj # ret.obj
            /\ ~sessions'[ret'.obj].connected
            /\ sessions'[ret'.obj].ssh_client = None
            /\ sessions'[ret'.obj].params = sessions[ret.obj].params]_vars
    /\ [][Created => connection_params'[ret'.id] = call'.params]_vars
    /\ [][~Created =>
            \A id \in DOMAIN connection_params' :
                id \in DOMAIN connection_params
                    /\ connection_params'[id] = connection_params[id]]_vars

\* get_connection rebuilt a closed endpoint from the host of its latest
\* create, which differs from the host of an earlier create of the same id
C11_Witness ==
    /\ ret.op = "get_connection"
    /\ ret.err = "none"
    /\ ret.obj = Len(sessions)
    /\ ret.obj >= 3
    /\ sessions[ret.obj - 1].params = sessions[ret.obj].params
    /\ sessions[ret.obj - 1].ssh_client = None
    /\ sessions[ret.obj - 2].params.connection_id = ret.id
    /\ sessions[ret.obj - 2].params.host # sessions[ret.obj].params.host
    /\ connection_params[ret.id] = sessions[ret.obj].params

NotFound(id) ==
    /\ ret'.err = "SSHConnectionError"
    /\ ret'.msg = <<"Connection ID '", id, "' not found">>

\* what C12 says of one close_and_remove_connection(id) step
C12_RemoveStep(id) ==
    /\ id \notin Live'
    /\ id \notin DOMAIN connection_params'
    /\ ret'.err = "none"
    /\ id \in Live =>
          /\ ~sessions'[connections[id]].connected
          /\ sessions'[connections[id]].ssh_client = None
          /\ SessionOf(id).ssh_client # None =>
                clients'[SessionOf(id).ssh_client] = "closed"

\* C12: close_and_remove_connection(id) takes id out of the live registry,
\* disconnecting its session, and out of the retained parameters; from then on
\* get_connection(id) raises not-found and changes nothing, and only a
\* create_connection for id that succeeds gives id parameters again.
C12_RemoveForgets ==
    /\ [][ret'.op = "close_and_remove_connection" => C12_RemoveStep(ret'.id)]_vars
    /\ [][(ret'.op = "get_connection" /\ ret'.id \notin DOMAIN connection_params) =>
            (NotFound(ret'.id) /\ PoolUnchanged)]_vars
    /\ [][\A id \in DOMAIN connection_params' \ DOMAIN connection_params :
            Created /\ ret'.id = id]_vars

\* get_connection found nothing for an id that had a session once and
\* whose session and parameters were removed
C12_Witness ==
    /\ ret.op = "get_connection"
    /\ ret.err = "SSHConnectionError"
    /\ ret.msg = <<"Connection ID '", ret.id, "' not found">>
    /\ ret.id \notin Live
    /\ ret.id \notin DOMAIN connection_params
    /\ \E sid \in DOMAIN sessions :
          /\ sessions[sid].params.connection_id = ret.id
          /\ sessions[sid].connection_time = None
    /\ \E c \in DOMAIN clients : clients[c] = "closed"

----------------------------------------------------------------------------
(* Further properties of the pool, checked under Spec *)

\* what C13 says of one close_connection(id) step
C13_CloseStep(id) ==
    IF id \in Live
    THEN LET sid == connections[id]
         IN  /\ ret'.err = "none"
             /\ ret'.obj = sid
             /\ ~sessions'[sid].connected
             /\ sessions'[sid].ssh_client = None
             /\ sessions[sid].ssh_client # None => clients'[sessions[sid].ssh_client] = "closed"
             /\ Live' = Live \ {id}
             /\ connection_params' = connection_params
             /\ id \in DOMAIN connection_params'
             /\ \A j \in Live \ {id} :
                   /\ connections'[j] = connections[j]
                   /\ sessions'[connections[j]] = sessions[connections[j]]
                   /\ SessionOf(j).ssh_client # None =>
                         clients'[SessionOf(j).ssh_client] = clients[SessionOf(j).ssh_client]
    ELSE ret'.err = "none" /\ ret'.obj = None /\ PoolUnchanged

\* C13: close_connection(id) with id registered disconnects its session, takes
\* id out of the live registry, leaves the retained parameters as they are,
\* leaves every other registered entry and its session untouched and returns
\* the session, now Disconnected; with id not registered it returns nothing
\* and changes nothing.
C13_CloseFrame ==
    [][ret'.op = "close_connection" => C13_CloseStep(ret'.id)]_vars

\* a Connected session was closed while another Connected one stayed registered
C13_Witness ==
    /\ ret.op = "close_connection"
    /\ ret.obj # None
    /\ ret.id \notin Live
    /\ ret.id \in DOMAIN connection_params
    /\ ~sessions[ret.obj].connected
    /\ \E c \in DOMAIN clients : clients[c] = "closed"
    /\ \E j \in Live : SessionOf(j).connected

\* session object sid is registered in the live registry
InRegistry(sid) == \E id \in Live : connections[id] = sid

\* session object sid holds a client that was not closed
HoldsOpenClient(sid) ==
    /\ sessions[sid].ssh_client # None
    /\ clients[sessions[sid].ssh_client] = "open"

\* C14: the pool disconnects every session before it drops it from the live
\* registry (eviction, close, remove, or a create that registers another
\* session under the same id), so no session outside the live registry holds
\* an open client.
C14_PoolOwnsSessions ==
    \A sid \in DOMAIN sessions : HoldsOpenClient(sid) => InRegistry(sid)

\* the calls that take an entry out of the live registry because the caller
\* names it or asks for all of them
ExplicitlyClosed(id) ==
    \/ ret'.op \in {"close_connection", "close_and_remove_connection"} /\ ret'.id = id
    \/ ret'.op \in {"close_all_connections", "clear_connection_pool"}

\* the step ran the eviction pass: a create_connection, a get_connection that
\* got past its checks, or a direct close_idle_connections
RanEviction ==
    \/ ret'.op \in {"create_connection", "close_idle_connections"}
    \/ /\ ret'.op = "get_connection"
       /\ ret'.id \notin Live
       /\ ret'.id \in DOMAIN connection_params
       /\ Cardinality(Live) < MaxConnections

\* what C15 says of a step that ran the eviction pass with the probe answers outs
C15_EvictionStep(outs) ==
    LET idle == {id \in Live : Idle(id, outs)}
    IN  /\ (idle \ {ret'.id}) \cap Live' = {}
        /\ ret'.op = "close_idle_connections" => idle \cap Live' = {}
        /\ Live \ idle \subseteq Live'
        /\ \A j \in Live \ (idle \cup {ret'.id}) : connections'[j] = connections[j]
        /\ \A j \in idle \ {ret'.id} :
              j \in DOMAIN connection_params' /\ connection_params'[j] = connection_params[j]

\* C15 as stated: an entry leaves the live registry without being closed by
\* name only in a step that is about to create a session.
C15_Opportunistic_Stated ==
    [][\A id \in Live \ Live' :
          ExplicitlyClosed(id) \/ ret'.op \in {"create_connection", "get_connection"}]_vars

\* C15 (amended): an entry leaves the live registry without being closed by
\* name only in a step that runs the eviction pass, which is a create, a get
\* that is about to create, or a direct close_idle_connections; the pass removes
\* exactly the registered entries whose probe fails then, keeps the others
\* registered, and keeps the parameters of the evicted ids.
C15_Opportunistic ==
    /\ [][\A id \in Live \ Live' : ExplicitlyClosed(id) \/ RanEviction]_vars
    /\ [][RanEviction => C15_EvictionStep(call'.outs)]_vars

\* a create evicted an idle entry, keeping its parameters, next to a
\* Connected entry whose probe answered
C15_Witness ==
    /\ ret.op = "create_connection"
    /\ ret.err = "none"
    /\ \E j \in DOMAIN call.outs \ Live : j \in DOMAIN connection_params
    /\ \E k \in Live \ {ret.id} :
          /\ k \in DOMAIN call.outs
          /\ Answers(call.outs[k], ProbeSentinel)
          /\ SessionOf(k).connected

----------------------------------------------------------------------------
(* Further properties of one session, checked under SessionSpec *)

OpenClients == {c \in DOMAIN clients : clients[c] = "open"}

\* C16: a connect() on a session that holds a client closes that client
\* before it opens another, so the only client ever open is the one the
\* session refers to, and no earlier client is left open.
C16_NoLeakedClient ==
    /\ [][\A sid \in DOMAIN sessions' :
            /\ Cardinality({c \in DOMAIN clients' : clients'[c] = "open"}) <= 1
            /\ \A c \in DOMAIN clients' :
                  clients'[c] = "open" => sessions'[sid].ssh_client = c]_vars
    /\ [][(ret'.op = "connect" /\ sessions[ret'.obj].ssh_client # None) =>
            /\ clients'[sessions[ret'.obj].ssh_client] = "closed"
            /\ sessions'[ret'.obj].ssh_client # sessions[ret'.obj].ssh_client]_vars

\* a second connect() succeeded: the first client is closed, the second is
\* open and is the session's
C16_Witness ==
    /\ ret.op = "connect"
    /\ ret.err = "none"
    /\ Len(clients) = 2
    /\ clients[1] = "closed"
    /\ OpenClients = {2}
    /\ sessions[ret.obj].ssh_client = 2
    /\ sessions[ret.obj].connected

\* the latest call was an execute() whose command ran to an exit status
Ran == ret.op = "execute" /\ ret.sent /\ call.exec # Raises

\* the stated output of execute(): stdout, then the marker and stderr if any
Concatenation(output, error_output) ==
    IF error_output = <<>> THEN output
    ELSE output \o <<"\n[stderr]: ">> \o error_output

\* text t occurs in text msg
Contains(msg, t) ==
    \E k \in 0..(Len(msg) - Len(t)) : SubSeq(msg, k + 1, k + Len(t)) = t

\* C17: execute() with exit status 0 returns stdout as it is when stderr is
\* empty (the empty string when both are), and stdout, "\n[stderr]: " and
\* stderr in that order when stderr is not empty, whatever stdout is.
C17_ExitZeroOutput ==
    (Ran /\ call.exit_status = 0) =>
        /\ ret.err = "none"
        /\ ret.text = Concatenation(call.output, call.error_output)

\* the step is an execute() whose command ran and exited non-zero
RanNonZero ==
    /\ ret'.op = "execute"
    /\ ret'.sent
    /\ call'.exec # Raises
    /\ call'.exit_status # 0

\* what execute() returns from the same session for the same streams and
\* exit status 0
AsForExitZero ==
    execute(sessions[ret'.obj], clients, ret'.id, [call' EXCEPT !.exit_status = 0]).value

\* C18 as stated: with ignore_stderr true a non-zero exit status never raises
\* and the value returned is the one for exit status 0.
C18_IgnoreStderr_Stated ==
    [][(RanNonZero /\ call'.ignore_stderr) =>
          (ret'.err = "none" /\ ret'.text = AsForExitZero)]_vars

\* C18 (amended): with ignore_stderr true, a non-zero exit status and stderr
\* not empty, execute() does not raise and returns what it returns for exit
\* status 0; with stderr empty it raises SSHConnectionError naming the exit code.
C18_IgnoreStderr ==
    /\ [][(RanNonZero /\ call'.ignore_stderr /\ call'.error_output # <<>>) =>
            (ret'.err = "none" /\ ret'.text = AsForExitZero)]_vars
    /\ [][(RanNonZero /\ call'.ignore_stderr /\ call'.error_output = <<>>) =>
            /\ ret'.err = "SSHConnectionError"
            /\ ToString(call'.exit_status) \in Range(ret'.msg)]_vars

\* execute() with ignore_stderr returned both streams of a command that exited 7
C18_Witness ==
    /\ Ran
    /\ call.ignore_stderr
    /\ call.exit_status = 7
    /\ ret.err = "none"
    /\ ret.text = <<"out", "\n", "\n[stderr]: ", "err", "\n">>

\* C19: execute() with ignore_stderr false and a non-zero exit status raises
\* SSHConnectionError with the exit code in its message, and with the stderr
\* text in it when stderr is not empty; it returns no output.
C19_NonZeroRaises ==
    (Ran /\ ~call.ignore_stderr /\ call.exit_status # 0) =>
        /\ ret.err = "SSHConnectionError"
        /\ ret.text = <<>>
        /\ ToString(call.exit_status) \in Range(ret.msg)
        /\ call.error_output # <<>> => Contains(ret.msg, call.error_output)

\* execute() raised for exit status 7 with the stderr text although stdout had output
C19_Witness ==
    /\ Ran
    /\ ~call.ignore_stderr
    /\ call.exit_status = 7
    /\ call.output # <<>>
    /\ call.error_output = <<"err", "\n">>
    /\ ret.err = "SSHConnectionError"
    /\ Contains(ret.msg, <<" (exit code ", "7", "): ", "err", "\n">>)

\* C20: execute() on a session that is Disconnected, or whose liveness
\* re-check fails, raises SSHConnectionError and the command is not sent.
C20_ExecuteNeedsConnected ==
    [][(/\ ret'.op = "execute"
        /\ \/ ~sessions[ret'.obj].connected
           \/ sessions[ret'.obj].ssh_client = None
           \/ ~Answers(call'.probe, ProbeSentinel)) =>
          /\ ret'.err = "SSHConnectionError"
          /\ ret'.msg = <<"No active SSH connection for ", ret'.id, ". Please connect first.">>
          /\ ~ret'.sent
          /\ ret'.text = <<>>]_vars

\* execute() was turned away after its liveness re-check got a wrong answer
\* and reset the session
C20_Witness ==
    /\ ret.op = "execute"
    /\ ret.err = "SSHConnectionError"
    /\ ~ret.sent
    /\ call.probe = <<"0", "\n">>
    /\ sessions[ret.obj].ssh_client = None
    /\ \E c \in DOMAIN clients : clients[c] = "closed"
    /\ sessions[ret.obj].params.host \in known_hosts

----------------------------------------------------------------------------
(* Properties of file transfer and disconnect, checked under TransferSpec *)

TransferOps == {"upload_file", "download_file", "list_directory"}

\* the step is a file transfer that got past the local check of upload_file
TransferStep == ret'.op \in TransferOps /\ ret'.err # "FileNotFoundError"

\* nothing in the environment makes the transfer of this step fail
NothingFails ==
    /\ call'.fails = "none"
    /\ ret'.op = "upload_file" => call'.local = "file"

\* what C21 says of one file transfer on session object sid
C21_TransferStep(sid) ==
    LET s == sessions[sid]
        t == sessions'[sid]
        live == s.connected /\ Answers(call'.probe, ProbeSentinel)
    IN  /\ (live /\ NothingFails) =>
              /\ ret'.err = "none"
              /\ Len(sftp_clients') = Len(sftp_clients) + 1
              /\ sftp_clients'[Len(sftp_clients')] = "closed"
              /\ t = s
              /\ clients' = clients
        /\ (live /\ ~NothingFails) =>
              /\ ret'.err = "SSHConnectionError"
              /\ ~t.connected
              /\ t.ssh_client = None
              /\ clients'[s.ssh_client] = "closed"
              /\ Len(sftp_clients') <= Len(sftp_clients) + 1
        /\ \A k \in DOMAIN sftp_clients : sftp_clients'[k] = sftp_clients[k]
        /\ \A k \in DOMAIN sftp_clients' : sftp_clients'[k] = "closed"

\* C21: a file transfer on a Connected session opens one SFTP client, does
\* its one operation and closes that SFTP client before it returns, and the
\* session stays Connected; if opening the SFTP client, the operation or the
\* closing fails, the session is reset (client closed and dropped) and
\* SSHConnectionError is raised.
C21_TransferOpensAndCloses ==
    [][TransferStep => C21_TransferStep(ret'.obj)]_vars

\* a download went through a second SFTP client, both are closed and the
\* session is still Connected
C21_Witness ==
    /\ ret.op = "download_file"
    /\ ret.err = "none"
    /\ ret.flag
    /\ Len(sftp_clients) = 2
    /\ \A k \in DOMAIN sftp_clients : sftp_clients[k] = "closed"
    /\ sessions[ret.obj].connected
    /\ clients[sessions[ret.obj].ssh_client] = "open"

\* C22: upload_file turns away a local path that is missing or is not a
\* regular file before it sends the liveness probe or opens an SFTP client,
\* and leaves the session and its client as they were.
C22_UploadValidatesLocal ==
    [][(ret'.op = "upload_file" /\ call'.local # "file") =>
          /\ ret'.err # "none"
          /\ ~ret'.sent
          /\ ~ret'.flag
          /\ sessions' = sessions
          /\ clients' = clients
          /\ sftp_clients' = sftp_clients]_vars

\* a session in the state reset_connection leaves behind
Disconnected(s) == ~s.connected /\ s.ssh_client = None /\ s.connection_time = None

Location(s) ==
    IF s.params.known_hosts_file = Unset THEN DefaultStore ELSE s.params.known_hosts_file

\* a connect() that got as far as the host-key check
ReachedHostKeyCheck == ret'.op = "connect" /\ call'.handshake # "NoValidConnectionsError"

\* C24: once the presented key of host H is registered in the known_hosts
\* file a session's parameters name (the default file when they name none),
\* connect() of that session to H is not turned away with UnknownHostKeyError.
C24_RemediationWorks ==
    [][(/\ ReachedHostKeyCheck
        /\ sessions[ret'.obj].params.host \in Trusted(Location(sessions[ret'.obj])))
          => ret'.err # "UnknownHostKeyError"]_vars

\* C25: the known_hosts files change only in ssh_add_host_key; connect(),
\* accepted or rejected, and disconnect() leave every line as it was.
C25_OnlyRegistrationWrites ==
    [][trust_store' # trust_store => ret'.op = "ssh_add_host_key"]_vars

\* a connect() was rejected for an unknown host key after another host's
\* key had been registered, and the host is still unknown
C25_Witness ==
    /\ ret.op = "connect"
    /\ ret.err = "UnknownHostKeyError"
    /\ trust_store[DefaultStore] # <<>>
    /\ sessions[ret.obj].params.host \notin Trusted(DefaultStore) \cup Trusted(CustomStore)

\* line starts with the host token host
HasToken(line, host) == split(line) # <<>> /\ split(line)[1] = host

\* no two lines of a known_hosts file start with the same host token
NoDuplicateTokens(lines) ==
    \A i, j \in DOMAIN lines :
        (i # j /\ split(lines[i]) # <<>> /\ split(lines[j]) # <<>>) =>
            split(lines[i])[1] # split(lines[j])[1]

\* what one registration does to the file it names and to the other files
C26_RegistrationStep ==
    LET file == call'.known_hosts_file
        old == trust_store[file]
        new == trust_store'[file]
        entry == Entry(call'.host, call'.key_type, call'.key)
    IN  /\ \A other \in KnownHostsFiles \ {file} : trust_store'[other] = trust_store[other]
        /\ IF \E i \in DOMAIN old : HasToken(old[i], call'.host)
           THEN /\ Len(new) = Len(old)
                /\ \A i \in DOMAIN old :
                      new[i] = IF HasToken(old[i], call'.host) THEN entry ELSE old[i]
           ELSE /\ Len(new) = Len(old) + 1
                /\ new = Append(old, entry)

GivenAuth(c) == Cardinality({f \in AuthFields : c.auth[f] # Unset})

\* C27: constructing SSHConnectionParams without password, private_key and
\* private_key_path fails with a validation error, and with exactly one of
\* them it succeeds.
C27_AuthMethodRequired ==
    [][ret'.op = "SSHConnectionParams" =>
          /\ GivenAuth(call') = 0 => ret'.err # "none"
          /\ GivenAuth(call') = 1 => ret'.err = "none"]_vars

LoaderOps == {"_load_key_from_string", "_load_key_from_file"}

\* the positions of the key classes that would load the material
Loading(material) == {i \in DOMAIN key_classes : material[key_classes[i]] = "ok"}

\* the positions whose attempt ends the loader with an unexpected exception
Aborting(material) == {i \in DOMAIN key_classes : material[key_classes[i]] = "Exception"}

\* the order the loaders' docstrings and the spec give
StatedOrder == <<"RSAKey", "DSSKey", "ECDSAKey", "Ed25519Key">>

\* C28: both loaders try RSA, DSA, ECDSA, Ed25519 in this order and return
\* the key of the first class that loads the material, trying none after it;
\* material that RSA loads always gives the RSA key.
C28_FirstSuccessWins ==
    [][ret'.op \in LoaderOps =>
          LET material == call'.material
              tried == ret'.text
              first == CHOOSE i \in Loading(material) : \A j \in Loading(material) : i <= j
          IN  /\ tried = SubSeq(StatedOrder, 1, Len(tried))
              /\ ret'.err = "none" =>
                    /\ Loading(material) # {}
                    /\ tried = SubSeq(StatedOrder, 1, first)
              /\ (Loading(material) # {} /\ \A i \in Aborting(material) : i > first) =>
                    /\ ret'.err = "none"
                    /\ tried = SubSeq(StatedOrder, 1, first)
              /\ material["RSAKey"] = "ok" =>
                    ret'.err = "none" /\ tried = <<"RSAKey">>]_vars

\* material that RSA and Ed25519 both load has just given the RSA key
C28_Witness ==
    /\ ret.op \in LoaderOps
    /\ call.material["RSAKey"] = "ok"
    /\ call.material["Ed25519Key"] = "ok"
    /\ ret.err = "none"
    /\ ret.text = <<"RSAKey">>

\* the messages of the two password-required errors
PasswordRequiredMessages ==
    {<<"Password-protected key provided but no password was given">>,
     <<"Password-protected key file requires a password">>}

\* C29: when every key class fails with password required or with a format
\* error, all four are tried; the loader raises the password-required
\* SSHKeyError if at least one class asked for a password, and the
\* key-format SSHKeyError otherwise.
C29_PasswordRequiredWins ==
    [][(/\ ret'.op \in LoaderOps
        /\ \A k \in DOMAIN call'.material :
              call'.material[k] \in {"PasswordRequiredException", "SSHException"}) =>
          /\ ret'.err = "SSHKeyError"
          /\ ret'.text = StatedOrder
          /\ (ret'.msg \in PasswordRequiredMessages) <=>
                 (\E k \in DOMAIN call'.material : call'.material[k] = "PasswordRequiredException")
          /\ (ret'.msg \notin PasswordRequiredMessages) =>
                 ret'.msg \in {<<"Failed to load key from string: ", "Ed25519Key">>,
                               <<"Invalid key format in ", "Ed25519Key">>}]_vars

\* RSA asked for a password, the three other classes reported a format
\* error, and the loader raised the password-required error after trying all
C29_Witness ==
    /\ ret.op \in LoaderOps
    /\ call.material["RSAKey"] = "PasswordRequiredException"
    /\ \A k \in {"DSSKey", "ECDSAKey", "Ed25519Key"} : call.material[k] = "SSHException"
    /\ ret.err = "SSHKeyError"
    /\ ret.msg \in PasswordRequiredMessages
    /\ ret.text = StatedOrder

\* C30: a registered session whose connect() has not succeeded is idle: the
\* next create_connection, for whatever id, takes it out of the registry
\* (registering a new object if the id is the same) and keeps parameters
\* under its id; a get_connection for an id that is not registered then
\* builds a new session object instead of returning the one handed out first.
C30_UnconnectedIsIdle ==
    [][/\ ret'.op = "create_connection" =>
            \A a \in Live :
                ~SessionOf(a).connected =>
                    /\ a \in DOMAIN connections' => (a = ret'.id /\ connections'[a] = Len(sessions) + 1)
                    /\ a \in DOMAIN connection_params'
                    /\ a # ret'.id => connection_params'[a] = connection_params[a]
       /\ (ret'.op = "get_connection" /\ ret'.err = "none" /\ ret'.id \notin Live) =>
            /\ ret'.obj = Len(sessions) + 1
            /\ connections'[ret'.id] = ret'.obj
            /\ sessions'[ret'.obj] = SSHConnection(connection_params[ret'.id])]_vars

\* create(a), create(b), get_connection(a) without any connect: the third
\* session object is the second one made for a, and only it is registered
C30_Witness ==
    /\ ret.op = "get_connection"
    /\ ret.id = "a"
    /\ ret.err = "none"
    /\ ret.obj = 3
    /\ clients = <<>>
    /\ sessions[1].params.connection_id = "a"
    /\ sessions[2].params.connection_id = "b"
    /\ sessions[3].params.connection_id = "a"
    /\ Live = {"a"}
    /\ "b" \in DOMAIN connection_params

====
